---- MODULE Spec2Model ----
(***************************************************************************)
(* pr-commits (src/src/main.rs): for every pull-request number given on    *)
(* the command line, fetch the PR title, fetch the PR's commits, print a   *)
(* table.  The model follows main() statement by statement; the GitHub     *)
(* server and the credential file are the environment and answer           *)
(* nondeterministically.                                                   *)
(*                                                                         *)
(* Scope of the model: a "request" is one Client::get(..).send() call (the *)
(* redirects reqwest may follow inside one send() are not modelled);       *)
(* writes to stdout succeed (println! on a closed stdout panics and is not *)
(* modelled); str::lines is modelled as documented by current std (a line  *)
(* ends at "\n" or "\r\n", a bare "\r" is kept).                           *)
(***************************************************************************)
EXTENDS Integers, Sequences, FiniteSets, TLC

VARIABLES
    pc,         \* position of main(): see the actions
    prs,        \* args.prs (main.rs:23), fixed at start
    i,          \* 1-based position of the for loop (main.rs:138) in prs
    token,      \* the trimmed credential ("unread" before main.rs:134)
    pr_title,   \* main.rs:139
    commits,    \* main.rs:140
    stdout,     \* characters written to standard output, as tokens
    response,   \* the response last received (main.rs:67, 98): the number
                \* of its call in calls, and its status
    calls,      \* history: one record per call of a fetch function
    errors      \* history: the errors returned with `?`, in order

vars == <<pc, prs, i, token, pr_title, commits, stdout, response, calls, errors>>

----------------------------------------------------------------------------
(* Bounds of the model *)

MaxPrs == 2         \* length of args.prs
MaxCommits == 2     \* entries in one commits response
MaxMsgLen == 4      \* characters of a commit message (rendering harness)

PrNumbers == {1, 2}
Titles == {"T"}
StatusCodes == {200, 404}

NoTitle == ""

\* Sequences over S of length lo..hi
SeqsBetween(S, lo, hi) == UNION {[1..n -> S] : n \in lo..hi}

----------------------------------------------------------------------------
(* Characters and str::lines *)

CR == "CR"
LF == "LF"
Chars == {"a", CR, LF}

Messages == SeqsBetween(Chars, 0, MaxMsgLen)

Front(s) == SubSeq(s, 1, Len(s) - 1)
Last(s) == s[Len(s)]

\* str::split_inclusive('\n'), first item: None for the empty string, else
\* the prefix up to and including the first "\n" (the whole string when
\* there is none).  None is modelled as <<"None">>, no message being that.
None == <<"None">>
SplitInclusiveFirst(s) ==
    IF s = <<>> THEN None
    ELSE LET nl == {p \in 1..Len(s) : s[p] = LF}
         IN  IF nl = {} THEN s
             ELSE SubSeq(s, 1, CHOOSE p \in nl : \A q \in nl : p <= q)

\* mutant: the "\r" before the "\n" is not stripped
LinesMapKeepCR(line) ==
    IF line # <<>> /\ Last(line) = LF THEN Front(line) ELSE line

\* std's LinesMap: strip_suffix('\n'), then strip_suffix('\r')
LinesMap(line) ==
    IF line = <<>> \/ Last(line) # LF THEN line
    ELSE LET l == Front(line)
         IN  IF l # <<>> /\ Last(l) = CR THEN Front(l) ELSE l

\* message.lines().next().unwrap_or("")
FirstLine(message) ==
    LET first == SplitInclusiveFirst(message)
    IN  IF first = None THEN <<>> ELSE LinesMap(first)

----------------------------------------------------------------------------
(* Commits and responses *)

Commit(sha, date, name, message) ==
    [sha |-> sha, date |-> date, name |-> name, message |-> message]

\* commits the server answers with in a run of main
CommitPool ==
    { Commit("s1", "d1", "n1", <<"a", LF, "a">>),
      Commit("s2", "d2", "n2", <<"a">>) }

\* commits given to the rendering harness: every message up to MaxMsgLen
HarnessCommits == { Commit("s3", "d3", "n3", m) : m \in Messages }

\* the lists given to the rendering harness: the lists over CommitPool, and
\* those with one entry, at any position, replaced by a harness commit
HarnessLists ==
    SeqsBetween(CommitPool, 0, MaxCommits) \cup
    UNION { { [l EXCEPT ![p] = c] : p \in 1..Len(l), c \in HarnessCommits } :
            l \in SeqsBetween(CommitPool, 1, MaxCommits) }

\* What send().await and json().await can give (main.rs:67-73, 98-104):
\* a transport error, or a response with a status and a body that does or
\* does not deserialize into the wanted shape.
TransportError == [transport |-> "err", status |-> 0, parsed |-> FALSE,
                   title |-> NoTitle, list |-> <<>>]

TitleResponses ==
    {TransportError} \cup
    { [transport |-> "ok", status |-> st, parsed |-> FALSE,
       title |-> NoTitle, list |-> <<>>] : st \in StatusCodes } \cup
    { [transport |-> "ok", status |-> st, parsed |-> TRUE,
       title |-> t, list |-> <<>>] : st \in StatusCodes, t \in Titles }

CommitsResponses ==
    {TransportError} \cup
    { [transport |-> "ok", status |-> st, parsed |-> FALSE,
       title |-> NoTitle, list |-> <<>>] : st \in StatusCodes } \cup
    { [transport |-> "ok", status |-> st, parsed |-> TRUE,
       title |-> NoTitle, list |-> l] :
         st \in StatusCodes, l \in SeqsBetween(CommitPool, 0, MaxCommits) }

\* The Result of a fetch function for a response: `send().await?` fails on a
\* transport error, `json::<T>().await?` on a body of another shape.
FetchResult(resp) ==
    IF resp.transport = "err" THEN "err"
    ELSE IF ~resp.parsed THEN "err"
    ELSE "ok"

----------------------------------------------------------------------------
(* Standard output.  A token is one formatted field group or one "\n";    *)
(* field i records, for the history only, the position in prs of the PR   *)
(* whose table the token was written for.                                  *)

Tok(k, idx, a) == [k |-> k, i |-> idx, a |-> a]
NL(idx) == Tok("nl", idx, <<>>)

\* mutant: the text is written in front of what is already there
PrintlnPrepend(out, idx, txt) == txt \o <<NL(idx)>> \o out

\* println!: the formatted text, then a newline
Println(out, idx, txt) == out \o txt \o <<NL(idx)>>

\* "PR #{} - {}"
TitleText(idx, pr, title) == <<Tok("title", idx, <<pr, title>>)>>
\* "Commit SHA | Date | Author | Message", padded
HeaderText(idx) == <<Tok("header", idx, <<>>)>>
\* "-----+-----+-----"
SeparatorText(idx) == <<Tok("sep", idx, <<>>)>>

\* "{:<40} | {:<25} | {:<20} | {}" of one commit
DataText(idx, c) ==
    <<Tok("data", idx, <<c.sha, c.date, c.name, FirstLine(c.message)>>)>>

\* mutant: println!() instead of println!("\n")
BlankTextEmpty(idx) == <<>>

\* the string literal "\n"
BlankText(idx) == <<NL(idx)>>

RECURSIVE Dedup(_)
\* mutant: a commit whose sha was seen earlier in the list is dropped
Dedup(cs) ==
    IF cs = <<>> THEN <<>>
    ELSE LET rest == Dedup(Front(cs))
         IN  IF \E p \in 1..Len(rest) : rest[p].sha = Last(cs).sha
             THEN rest ELSE Append(rest, Last(cs))

\* the commits the for loop of print_commit_table visits, in order
Rows(cs) == cs

RECURSIVE PrintRows(_, _, _)
\* for commit in commits { println!(...) }
PrintRows(out, idx, cs) ==
    IF cs = <<>> THEN out
    ELSE PrintRows(Println(out, idx, DataText(idx, cs[1])), idx, Tail(cs))

\* mutant: an empty list prints nothing at all
TableSkipEmpty(out, idx, pr, title, cs) ==
    IF cs = <<>> THEN out
    ELSE Println(PrintRows(Println(Println(Println(out,
             idx, TitleText(idx, pr, title)),
             idx, HeaderText(idx)),
             idx, SeparatorText(idx)),
             idx, Rows(cs)),
             idx, BlankText(idx))

\* print_commit_table
Table(out, idx, pr, title, cs) ==
    LET o1 == Println(out, idx, TitleText(idx, pr, title))
        o2 == Println(o1, idx, HeaderText(idx))
        o3 == Println(o2, idx, SeparatorText(idx))
        o4 == PrintRows(o3, idx, Rows(cs))
    IN  Println(o4, idx, BlankText(idx))

RECURSIVE LinesOf(_)
\* the lines a reader of the output sees: the text between newlines
LinesOf(s) ==
    LET nl == {p \in 1..Len(s) : s[p].k = "nl"}
    IN  IF s = <<>> THEN <<>>
        ELSE IF nl = {} THEN <<[i |-> s[1].i, toks |-> s]>>
        ELSE LET p == CHOOSE q \in nl : \A r \in nl : q <= r
             IN  <<[i |-> s[p].i, toks |-> SubSeq(s, 1, p - 1)]>>
                 \o LinesOf(SubSeq(s, p + 1, Len(s)))

LineKind(l) == IF l.toks = <<>> THEN "blank" ELSE l.toks[1].k

----------------------------------------------------------------------------
(* Control flow of main *)

\* mutant: the error is dropped and the run goes on
TryIgnore(result, okpc) == okpc

\* the `?` operator in main: an Err returns from main at once
Try(result, okpc) == IF result = "err" THEN "exit_err" ELSE okpc

\* mutant: the title fetch is skipped
LoopEntryNoTitle(idx, n) == IF idx <= n THEN "fetch_commits" ELSE "return"

\* for &pr_number in &args.prs: the next iteration, or the end of the loop
LoopEntry(idx, n) == IF idx <= n THEN "fetch_title" ELSE "return"

\* mutant: the request is not awaited
AfterSendNoAwait(fn) == IF fn = "title" THEN "fetch_commits" ELSE "print"

\* .send().await: main is suspended until the response is there
AfterSend(fn) == IF fn = "title" THEN "await_title" ELSE "await_commits"

\* HeaderValue::from_str(&format!("token {}", token))?
HeaderResult(tok) == IF tok = "badheader" THEN "err" ELSE "ok"

Raise(errs, result, what) ==
    IF result = "err" THEN Append(errs, what) ELSE errs

NewCall(fn, idx, pr, hdr) ==
    [fn |-> fn, idx |-> idx, pr |-> pr,
     req |-> IF hdr = "ok" THEN "sent" ELSE "none",
     parsed |-> FALSE,
     result |-> IF hdr = "ok" THEN "pending" ELSE "err",
     list |-> <<>>]

Answered(call, resp) ==
    [call EXCEPT !.req = IF resp.transport = "err" THEN "failed" ELSE "answered",
                 !.parsed = resp.parsed,
                 !.result = FetchResult(resp),
                 !.list = resp.list]

Init ==
    /\ pc = "read_token"
    /\ prs \in SeqsBetween(PrNumbers, 1, MaxPrs)
    /\ i = 1
    /\ token = "unread"
    /\ pr_title = NoTitle
    /\ commits = <<>>
    /\ stdout = <<>>
    /\ response = [call |-> 0, status |-> 0]
    /\ calls = <<>>
    /\ errors = <<>>

\* std::fs::read_to_string(&args.token_path)?.trim().to_string()
ReadToken ==
    /\ pc = "read_token"
    /\ \E r \in {"ioerr", "valid", "badheader"} :
         LET res == IF r = "ioerr" THEN "err" ELSE "ok"
         IN  /\ token' = IF res = "ok" THEN r ELSE token
             /\ errors' = Raise(errors, res, "io")
             /\ pc' = Try(res, LoopEntry(1, Len(prs)))
    /\ UNCHANGED <<prs, i, pr_title, commits, stdout, response, calls>>

\* fetch_pr_title up to .send()
FetchTitleSend ==
    /\ pc = "fetch_title"
    /\ LET hdr == HeaderResult(token)
       IN  /\ calls' = Append(calls, NewCall("title", i, prs[i], hdr))
           /\ errors' = Raise(errors, hdr, "header")
           /\ pc' = Try(hdr, AfterSend("title"))
    /\ UNCHANGED <<prs, i, token, pr_title, commits, stdout, response>>

\* fetch_pr_title from the response on, and the `?` of main.rs:139
FetchTitleRecv ==
    /\ pc = "await_title"
    /\ \E resp \in TitleResponses :
         LET res == FetchResult(resp)
         IN  /\ response' = [call |-> Len(calls), status |-> resp.status]
             /\ calls' = [calls EXCEPT ![Len(calls)] = Answered(@, resp)]
             /\ pr_title' = IF res = "ok" THEN resp.title ELSE pr_title
             /\ errors' = Raise(errors, res, "fetch")
             /\ pc' = Try(res, "fetch_commits")
    /\ UNCHANGED <<prs, i, token, commits, stdout>>

\* fetch_commits_for_pr up to .send()
FetchCommitsSend ==
    /\ pc = "fetch_commits"
    /\ LET hdr == HeaderResult(token)
       IN  /\ calls' = Append(calls, NewCall("commits", i, prs[i], hdr))
           /\ errors' = Raise(errors, hdr, "header")
           /\ pc' = Try(hdr, AfterSend("commits"))
    /\ UNCHANGED <<prs, i, token, pr_title, commits, stdout, response>>

\* fetch_commits_for_pr from the response on, and the `?` of main.rs:140
FetchCommitsRecv ==
    /\ pc = "await_commits"
    /\ \E resp \in CommitsResponses :
         LET res == FetchResult(resp)
         IN  /\ response' = [call |-> Len(calls), status |-> resp.status]
             /\ calls' = [calls EXCEPT ![Len(calls)] = Answered(@, resp)]
             /\ commits' = IF res = "ok" THEN resp.list ELSE commits
             /\ errors' = Raise(errors, res, "fetch")
             /\ pc' = Try(res, "print")
    /\ UNCHANGED <<prs, i, token, pr_title, stdout>>

\* print_commit_table(pr_number, &pr_title, &commits); and the loop's step
PrintTable ==
    /\ pc = "print"
    /\ stdout' = Table(stdout, i, prs[i], pr_title, commits)
    /\ i' = i + 1
    /\ pc' = LoopEntry(i + 1, Len(prs))
    /\ UNCHANGED <<prs, token, pr_title, commits, response, calls, errors>>

\* Ok(())
Return ==
    /\ pc = "return"
    /\ pc' = "exit_ok"
    /\ UNCHANGED <<prs, i, token, pr_title, commits, stdout, response, calls, errors>>

Next ==
    \/ ReadToken
    \/ FetchTitleSend
    \/ FetchTitleRecv
    \/ FetchCommitsSend
    \/ FetchCommitsRecv
    \/ PrintTable
    \/ Return

Spec == Init /\ [][Next]_vars

\* The steps main takes by itself; a response is the server's to give.
MainStep == ReadToken \/ FetchTitleSend \/ FetchCommitsSend \/ PrintTable \/ Return

\* The runtime keeps polling main; nothing is assumed of the server.
LiveSpec == Spec /\ WF_vars(MainStep)

\* The rendering harness: print_commit_table on any bounded input.
InitTable ==
    /\ pc = "print"
    /\ prs \in SeqsBetween(PrNumbers, 1, 1)
    /\ i = 1
    /\ token = "valid"
    /\ pr_title \in Titles
    /\ commits \in HarnessLists
    /\ stdout = <<>>
    /\ response = [call |-> 0, status |-> 0]
    /\ calls = <<>>
    /\ errors = <<>>

SpecTable == InitTable /\ [][PrintTable]_vars

----------------------------------------------------------------------------
(* What the properties read *)

Lines == LinesOf(stdout)

\* of the lines ls, those written for the PR at position idx, in order
TableLines(ls, idx) ==
    LET Mine(l) == l.i = idx IN SelectSeq(ls, Mine)

Kinds(ls) == [p \in 1..Len(ls) |-> LineKind(ls[p])]

DataLines(ls) ==
    LET IsData(l) == LineKind(l) = "data" IN SelectSeq(ls, IsData)

\* the four fields of a data line
Fields(l) == l.toks[1].a

CountKind(ls, k) == Cardinality({p \in 1..Len(ls) : LineKind(ls[p]) = k})

Repeat(x, n) == [p \in 1..n |-> x]

\* the loop has gone past position idx: its table was printed
Printed(idx) == idx < i

Terminated == pc \in {"exit_ok", "exit_err"}

Success(status) == status \in 200..299

\* the requests issued so far, in order
Requests == LET Sent(c) == c.req # "none" IN SelectSeq(calls, Sent)

Outstanding == \E c \in 1..Len(calls) : calls[c].req = "sent"

\* the calls of fn for position idx that returned Ok
OkCalls(fn, idx) ==
    {c \in 1..Len(calls) :
        calls[c].fn = fn /\ calls[c].idx = idx /\ calls[c].result = "ok"}

\* A line break is "\n" or "\r\n"; the text before the first one.
BreakStarts(m) ==
    {p \in 1..Len(m) :
        m[p] = LF \/ (m[p] = CR /\ p < Len(m) /\ m[p + 1] = LF)}

BeforeFirstBreak(m) ==
    LET bs == BreakStarts(m)
    IN  IF bs = {} THEN m
        ELSE SubSeq(m, 1, (CHOOSE p \in bs : \A q \in bs : p <= q) - 1)

\* the fields a data line shows of commit c
RowOf(c) == <<c.sha, c.date, c.name, BeforeFirstBreak(c.message)>>

----------------------------------------------------------------------------
(* Properties *)

\* C1: the tables appear in the order of the input list: every line of the
\* table of the PR at position a is written before any line of the table of
\* a PR at a later position, so the lines of two tables never interleave.
C1_TablesInInputOrder ==
    LET ls == Lines
    IN  \A a, b \in 1..Len(ls) : a < b => ls[a].i <= ls[b].i

C1_Witness ==
    LET ls == Lines
    IN  /\ pc = "exit_ok"
        /\ Len(prs) = 2
        /\ TableLines(ls, 1) # <<>>
        /\ TableLines(ls, 2) # <<>>

\* C2 (as claimed): a response with a non-2xx status makes the fetch return
\* an error, and no request for a later PR number is issued.
C2_NonSuccessHalts ==
    (/\ response.call > 0
     /\ calls[response.call].req = "answered"
     /\ ~Success(response.status)) =>
        /\ calls[response.call].result = "err"
        /\ \A d \in 1..Len(calls) :
             calls[d].idx > calls[response.call].idx => calls[d].req = "none"

\* C3: nothing at all is written for a PR one of whose fetches returned an
\* error.
C3_NoPartialTable ==
    LET ls == Lines
    IN  \A c \in 1..Len(calls) :
            calls[c].result = "err" => TableLines(ls, calls[c].idx) = <<>>

C3_Witness ==
    /\ pc = "exit_err"
    /\ Len(calls) = 4
    /\ calls[4].fn = "commits"
    /\ calls[4].req = "answered"
    /\ calls[4].result = "err"
    /\ TableLines(Lines, 1) # <<>>

\* C4 (as claimed): the table of a PR with N commits is one header line, one
\* separator line, N data lines, one blank line, and nothing else.
C4_HeaderSeparatorRowsBlank ==
    pc # "print" =>
        Kinds(Lines) = <<"header", "sep">> \o Repeat("data", Len(commits))
                       \o <<"blank">>

\* C4 (amended): the table of a PR with N commits is one title line, one
\* header line, one separator line, N data lines and two blank lines, in
\* that order, and nothing else.
C4_TitleHeaderSeparatorRowsTwoBlanks ==
    pc # "print" =>
        Kinds(Lines) = <<"title", "header", "sep">>
                       \o Repeat("data", Len(commits))
                       \o <<"blank", "blank">>

C4_Witness ==
    /\ pc = "return"
    /\ Len(commits) = 2
    /\ Len(Lines) = 7

\* C5: the message field of the data line of every commit is the text of
\* the commit message before its first line break: the whole message when
\* it has none, the empty text when it is empty or starts with one.
C5_MessageFirstLineOnly ==
    pc # "print" =>
        LET rows == DataLines(Lines)
        IN  /\ Len(rows) = Len(commits)
            /\ \A k \in 1..Len(commits) :
                 Fields(rows[k])[4] = BeforeFirstBreak(commits[k].message)

C5_Witness ==
    /\ pc = "return"
    /\ Len(commits) = 2
    /\ commits[2].message = <<"a", CR, LF, "a">>
    /\ Fields(DataLines(Lines)[2])[4] = <<"a">>

\* C6: the data lines of the table at a position are, one for one and in
\* the same order, the entries of the commits response of that position.
C6_RowsAreTheResponse ==
    LET ls == Lines
    IN  \A idx \in 1..Len(prs) :
            Printed(idx) =>
                \E c \in OkCalls("commits", idx) :
                    LET rows == DataLines(TableLines(ls, idx))
                    IN  /\ Len(rows) = Len(calls[c].list)
                        /\ \A k \in 1..Len(rows) :
                             Fields(rows[k]) = RowOf(calls[c].list[k])

C6_Witness ==
    /\ pc = "exit_ok"
    /\ prs = <<1, 1>>
    /\ \E c \in OkCalls("commits", 1), d \in OkCalls("commits", 2) :
         /\ Len(calls[c].list) = 2
         /\ calls[c].list[1] = calls[c].list[2]
         /\ Len(calls[d].list) = 2
         /\ calls[d].list[1].sha = "s2"
         /\ calls[d].list[2].sha = "s1"

\* C7: an empty commits list is not an error: the fetch returns Ok, the
\* table is printed with its header and its separator and no data line,
\* and the run goes on to the next PR number, or ends well after the last.
C7_EmptyListIsATable ==
    LET ls == Lines
    IN  \A c \in 1..Len(calls) :
            (/\ calls[c].fn = "commits"
             /\ calls[c].req = "answered"
             /\ calls[c].parsed
             /\ calls[c].list = <<>>) =>
                LET idx == calls[c].idx
                    t == TableLines(ls, idx)
                IN  /\ calls[c].result = "ok"
                    /\ ~Printed(idx) => (pc = "print" /\ commits = <<>>)
                    /\ Printed(idx) =>
                         /\ CountKind(t, "header") = 1
                         /\ CountKind(t, "sep") = 1
                         /\ CountKind(t, "data") = 0
                         /\ IF idx < Len(prs)
                            THEN \/ pc = "fetch_title" /\ i = idx + 1
                                 \/ \E d \in 1..Len(calls) : calls[d].idx = idx + 1
                            ELSE pc \in {"return", "exit_ok"}

C7_Witness ==
    /\ Len(prs) = 2
    /\ Len(calls) = 3
    /\ calls[2].parsed
    /\ calls[2].list = <<>>
    /\ Kinds(TableLines(Lines, 1)) = <<"title", "header", "sep", "blank", "blank">>
    /\ calls[3].fn = "title"
    /\ calls[3].idx = 2
    /\ calls[3].req = "sent"

\* C8: the run ends with status zero exactly when the credential file was
\* read and both fetches of every PR number returned Ok, every table then
\* being printed; otherwise it ends non-zero at the first error, which is
\* the last thing that happened.
C8_ExitStatus ==
    LET ls == Lines
        AllOk == /\ token # "unread"
                 /\ \A idx \in 1..Len(prs) :
                      /\ OkCalls("title", idx) # {}
                      /\ OkCalls("commits", idx) # {}
    IN  /\ pc = "exit_ok" =>
             /\ AllOk
             /\ errors = <<>>
             /\ \A idx \in 1..Len(prs) : TableLines(ls, idx) # <<>>
        /\ pc = "exit_err" =>
             /\ ~AllOk
             /\ Len(errors) = 1
             /\ \/ token = "unread" /\ calls = <<>> /\ stdout = <<>>
                \/ /\ calls # <<>>
                   /\ Last(calls).result = "err"
                   /\ \A c \in 1..Len(calls) - 1 : calls[c].result = "ok"
                   /\ TableLines(ls, Last(calls).idx) = <<>>
        /\ errors # <<>> => pc = "exit_err"
        /\ (AllOk /\ Printed(Len(prs))) => pc \in {"return", "exit_ok"}

C8_Witness ==
    /\ pc = "exit_err"
    /\ Len(calls) = 3
    /\ calls[3].req = "failed"
    /\ stdout # <<>>

\* C9: requests are strictly sequential and never repeated: at most one is
\* outstanding; the k-th request is the title GET of position (k+1)/2 for
\* odd k and the commits GET of position k/2 for even k, the latter issued
\* only after the title fetch returned Ok; a request for position idx+1 is
\* issued only after the table of position idx was printed; a run that ends
\* well has issued exactly 2n requests.
C9_SequentialRequests ==
    LET ls == Lines
        rq == Requests
    IN  /\ Cardinality({c \in 1..Len(calls) : calls[c].req = "sent"}) <= 1
        /\ \A k \in 1..Len(rq) :
             /\ rq[k].idx = (k + 1) \div 2
             /\ rq[k].pr = prs[(k + 1) \div 2]
             /\ rq[k].fn = IF k % 2 = 1 THEN "title" ELSE "commits"
             /\ k % 2 = 0 => rq[k - 1].result = "ok"
             /\ k > 2 => /\ rq[k - 1].req # "sent"
                         /\ rq[k - 2].result = "ok"
             /\ rq[k].idx > 1 =>
                  LET t == Kinds(TableLines(ls, rq[k].idx - 1))
                  IN  Len(t) >= 5 /\ t[Len(t)] = "blank"
        /\ pc = "exit_ok" => Len(rq) = 2 * Len(prs)

C9_Witness ==
    /\ pc = "exit_ok"
    /\ Len(prs) = 2
    /\ Len(Requests) = 4

\* C10: there is no timeout, cancellation or retry.  If every request that
\* is issued is answered at some time the run terminates; and as long as a
\* request is unanswered the run issues no request, prints nothing and does
\* not terminate.
C10_NoTimeout ==
    /\ (Outstanding ~> ~Outstanding) => <>Terminated
    /\ [](Outstanding => ~Terminated)
    /\ [][Outstanding =>
            /\ stdout' = stdout
            /\ Len(calls') = Len(calls)
            /\ (Outstanding' => UNCHANGED vars)]_vars

C10_Witness ==
    /\ Outstanding
    /\ Len(calls) = 3
    /\ stdout # <<>>

====
